---- MODULE Spec2Model ----
(***************************************************************************)
(* Model of the pusher-deno client library: Token (src/src/token.ts),      *)
(* WebHook (webhook.ts) and the validating entry points of Pusher          *)
(* (src/src/pusher.ts).                                                    *)
(*                                                                         *)
(* A JavaScript string is a sequence of one-character strings.  A          *)
(* JavaScript value that may or may not be a string is a record            *)
(* [t |-> type tag, v |-> characters]; for a number v holds its decimal    *)
(* digits and for undefined it is empty.                                   *)
(***************************************************************************)
EXTENDS Integers, Sequences, FiniteSets

VARIABLES
    wh,      \* the WebHook object: token, key, signature, contentType, body, data
    last,    \* the last call made on the WebHook object and how it ended
    snap,    \* a call remembered from earlier in the WebHook object's life
    call,    \* the last call made on the Pusher object and how it ended
    tok      \* the last call made on a Token object and how it ended

vars == <<wh, last, snap, call, tok>>

-----------------------------------------------------------------------------
(* Strings and JavaScript values *)

Str(s) == [t |-> "string", v |-> s]
Undefined == [t |-> "undefined", v |-> <<>>]
Num(digits) == [t |-> "number", v |-> digits]

IsString(x) == x.t = "string"

\* The text JavaScript's string concatenation gives a value.
JSString(x) ==
    IF x.t = "undefined" THEN <<"u", "n", "d", "e", "f", "i", "n", "e", "d">>
    ELSE x.v

\* No call has been made on the Pusher object.
NoPusherCall ==
    [op |-> "none", socketId |-> Undefined,
     channels |-> [isArray |-> TRUE, items |-> <<>>], event |-> Undefined,
     out |-> [steps |-> <<>>, ret |-> "none", name |-> "none", message |-> <<>>,
              channels |-> <<>>, socketId |-> Undefined]]

\* n copies of the character c.
Repeat(c, n) == [i \in 1..n |-> c]

RECURSIVE SeqsUpTo(_, _)
\* Every string over the alphabet A of at most n characters.
SeqsUpTo(A, n) ==
    IF n = 0 THEN {<<>>}
    ELSE LET shorter == SeqsUpTo(A, n - 1)
         IN  shorter \cup {Append(s, c) : s \in shorter, c \in A}

\* Whether needle occurs in hay as a contiguous substring.
Contains(hay, needle) ==
    \E k \in 0..(Len(hay) - Len(needle)) :
        \A i \in 1..Len(needle) : hay[k + i] = needle[i]

-----------------------------------------------------------------------------
(* Token: src/src/token.ts *)

\* The characters that occur in keys, secrets, bodies and signatures.
Alphabet ==
    << "0", "1", "2", "3", "4", "5", "6", "7", "8", "9",
       "a", "b", "c", "d", "e", "f", "g", "h", "i", "j", "k", "l", "m",
       "n", "o", "p", "q", "r", "s", "t", "u", "v", "w", "x", "y", "z",
       "{", "}", "[", "]", ":", ",", "\"", "_", " ", ".", "-", "!" >>

CharSet == {Alphabet[i] : i \in 1..Len(Alphabet)}

\* charCodeAt: a code unit for every character (its index in Alphabet).
CharCode == [c \in CharSet |-> CHOOSE i \in 1..Len(Alphabet) : Alphabet[i] = c]

HexDigits ==
    << "0", "1", "2", "3", "4", "5", "6", "7", "8", "9", "a", "b", "c", "d", "e", "f" >>

\* The digest is one byte wide; it is rendered as two hex digits.
DigestModulus == 256

RECURSIVE Absorb(_, _, _)
\* One pass of the digest's compression over the characters of s from i on.
Absorb(h, s, i) ==
    IF i > Len(s) THEN h
    ELSE Absorb((h * 31 + CharCode[s[i]]) % DigestModulus, s, i + 1)

\* hmac("sha256", secret, string, "utf8", "hex"): a keyed digest of the
\* message in lower-case hex.  The digest is a small keyed hash with the
\* HMAC shape (an inner pass keyed by the secret, an outer pass keyed by
\* the secret over the inner digest); it is a function of (secret, string)
\* and, like any digest, not injective.
hmac(secret, string) ==
    LET inner == Absorb(Absorb(54, secret, 1), string, 1)
        outer == (Absorb(92, secret, 1) * 31 + inner) % DigestModulus
    IN  << HexDigits[(outer \div 16) + 1], HexDigits[(outer % 16) + 1] >>

NewToken(key, secret) == [key |-> key, secret |-> secret]

\* Token.sign(string)
sign(token, string) == hmac(token.secret, string)

RECURSIVE BitXor(_, _)
BitXor(a, b) ==
    IF a = 0 /\ b = 0 THEN 0
    ELSE (((a % 2) + (b % 2)) % 2) + 2 * BitXor(a \div 2, b \div 2)

RECURSIVE BitOr(_, _)
BitOr(a, b) ==
    IF a = 0 /\ b = 0 THEN 0
    ELSE (IF a % 2 = 1 \/ b % 2 = 1 THEN 1 ELSE 0) + 2 * BitOr(a \div 2, b \div 2)

RECURSIVE XorFold(_, _, _, _)
\* result |= a.charCodeAt(i) ^ b.charCodeAt(i), over every position of a.
XorFold(result, a, b, i) ==
    IF i > Len(a) THEN result
    ELSE XorFold(BitOr(result, BitXor(CharCode[a[i]], CharCode[b[i]])), a, b, i + 1)

\* util.secureCompare(a, b): equality of two strings by a comparison that
\* looks at every position; a value that is no string of a's length is a
\* mismatch, never a fault.
secureCompare(a, b) ==
    /\ IsString(b)
    /\ Len(a) = Len(b.v)
    /\ XorFold(0, a, b.v, 1) = 0

\* Token.verify(string, signature): a field slip that signs with the key.
verifyWithKey(token, string, signature) ==
    secureCompare(hmac(token.key.v, string), signature)

\* Token.verify(string, signature)
verify(token, string, signature) ==
    secureCompare(sign(token, string), signature)

\* The tokens of the model.  Two share the key and differ in the secret,
\* two share the secret and differ in the key.
Tokens ==
    { NewToken(Str(<<"k", "1">>), <<"s", "1">>),
      NewToken(Str(<<"k", "2">>), <<"s", "1">>),
      NewToken(Str(<<"k", "1">>), <<"s", "2">>) }

MaxMessageLen == 2
MaxSignatureLen == 2

Messages == SeqsUpTo({"a", "b"}, MaxMessageLen)

\* Signature arguments: the signatures the tokens give the messages, short
\* hex strings of every length up to the bound, and a missing value.
Signatures ==
    {Str(sign(t, m)) : t \in Tokens, m \in Messages}
        \cup {Str(s) : s \in SeqsUpTo({"0", "a", "f"}, MaxSignatureLen)}
        \cup {Undefined}

NoTokenCall ==
    [op |-> "none", token |-> NewToken(Str(<<>>), <<>>), string |-> <<>>,
     signature |-> Undefined, signed |-> <<>>, ok |-> FALSE]

\* A call of token.sign(string) on the token and message drawn.
TokenSign ==
    /\ tok.op = "none"
    /\ tok' = [tok EXCEPT !.op = "sign", !.signed = sign(tok.token, tok.string)]
    /\ UNCHANGED <<wh, last, snap, call>>

\* A call of token.verify(string, signature) on the inputs drawn.
TokenVerify ==
    /\ tok.op = "none"
    /\ tok' = [tok EXCEPT !.op = "verify",
                          !.ok = verify(tok.token, tok.string, tok.signature)]
    /\ UNCHANGED <<wh, last, snap, call>>

-----------------------------------------------------------------------------
(* JSON.parse, property access and Date, as webhook.ts uses them *)

\* A parsed JSON value.  Every value has the same fields; a field a type
\* does not use is empty.  An object is a sequence of keys and the sequence
\* of their values.
JV(t, n, s, keys, items) == [t |-> t, n |-> n, s |-> s, keys |-> keys, items |-> items]
JUndefined == JV("undefined", 0, <<>>, <<>>, <<>>)
JNull == JV("null", 0, <<>>, <<>>, <<>>)
JTrue == JV("true", 0, <<>>, <<>>, <<>>)
JFalse == JV("false", 0, <<>>, <<>>, <<>>)
JNumber(n) == JV("number", n, <<>>, <<>>, <<>>)
JString(s) == JV("string", 0, s, <<>>, <<>>)
JArray(items) == JV("array", 0, <<>>, <<>>, items)
JObject(keys, items) == JV("object", 0, <<>>, keys, items)

ParseFail == [ok |-> FALSE, val |-> JUndefined, pos |-> 0]
ParseOk(val, pos) == [ok |-> TRUE, val |-> val, pos |-> pos]

\* The character of b at i, or the empty string past its end.
At(b, i) == IF i >= 1 /\ i <= Len(b) THEN b[i] ELSE ""

Digits == {"0", "1", "2", "3", "4", "5", "6", "7", "8", "9"}
DigitValue(c) == CharCode[c] - 1

RECURSIVE SkipWs(_, _)
SkipWs(b, i) == IF At(b, i) = " " THEN SkipWs(b, i + 1) ELSE i

\* Whether the characters of word stand in b from i on.
Literal(b, i, word) == \A k \in 1..Len(word) : At(b, i + k - 1) = word[k]

RECURSIVE ParseDigits(_, _, _)
ParseDigits(b, i, n) ==
    IF At(b, i) \in Digits THEN ParseDigits(b, i + 1, n * 10 + DigitValue(b[i]))
    ELSE ParseOk(JNumber(n), i)

\* A JSON number of the model: 0, or a digit 1-9 and more digits.
ParseNumber(b, i) ==
    IF b[i] = "0" THEN ParseOk(JNumber(0), i + 1) ELSE ParseDigits(b, i, 0)

RECURSIVE ParseChars(_, _, _)
\* The characters of a JSON string from i on, up to the closing quote.
ParseChars(b, i, acc) ==
    IF At(b, i) = "" THEN ParseFail
    ELSE IF b[i] = "\"" THEN ParseOk(JString(acc), i + 1)
    ELSE ParseChars(b, i + 1, Append(acc, b[i]))

\* obj[key] = val: a repeated key keeps its place and takes the later value.
PutMember(keys, items, key, val) ==
    IF \E k \in 1..Len(keys) : keys[k] = key
    THEN [keys |-> keys,
          items |-> [k \in 1..Len(items) |-> IF keys[k] = key THEN val ELSE items[k]]]
    ELSE [keys |-> Append(keys, key), items |-> Append(items, val)]

RECURSIVE ParseValue(_, _)
RECURSIVE ParseItems(_, _, _)
RECURSIVE ParseMembers(_, _, _, _)

\* The elements of an array from i on, after "[" or ",".
ParseItems(b, i, acc) ==
    LET r == ParseValue(b, SkipWs(b, i))
        j == SkipWs(b, r.pos)
    IN  IF ~r.ok THEN ParseFail
        ELSE IF At(b, j) = "," THEN ParseItems(b, j + 1, Append(acc, r.val))
        ELSE IF At(b, j) = "]" THEN ParseOk(JArray(Append(acc, r.val)), j + 1)
        ELSE ParseFail

\* The members of an object from i on, after "{" or ",".
ParseMembers(b, i, keys, items) ==
    LET j == SkipWs(b, i)
        k == IF At(b, j) = "\"" THEN ParseChars(b, j + 1, <<>>) ELSE ParseFail
        c == SkipWs(b, k.pos)
        r == IF k.ok /\ At(b, c) = ":" THEN ParseValue(b, SkipWs(b, c + 1)) ELSE ParseFail
        e == SkipWs(b, r.pos)
        m == PutMember(keys, items, k.val.s, r.val)
    IN  IF ~r.ok THEN ParseFail
        ELSE IF At(b, e) = "," THEN ParseMembers(b, e + 1, m.keys, m.items)
        ELSE IF At(b, e) = "}" THEN ParseOk(JObject(m.keys, m.items), e + 1)
        ELSE ParseFail

\* One JSON value from i on (i is past any white space).
ParseValue(b, i) ==
    LET c == At(b, i)
    IN  IF c = "n" THEN (IF Literal(b, i, <<"n", "u", "l", "l">>)
                         THEN ParseOk(JNull, i + 4) ELSE ParseFail)
        ELSE IF c = "t" THEN (IF Literal(b, i, <<"t", "r", "u", "e">>)
                              THEN ParseOk(JTrue, i + 4) ELSE ParseFail)
        ELSE IF c = "f" THEN (IF Literal(b, i, <<"f", "a", "l", "s", "e">>)
                              THEN ParseOk(JFalse, i + 5) ELSE ParseFail)
        ELSE IF c \in Digits THEN ParseNumber(b, i)
        ELSE IF c = "\"" THEN ParseChars(b, i + 1, <<>>)
        ELSE IF c = "[" THEN
            (IF At(b, SkipWs(b, i + 1)) = "]"
             THEN ParseOk(JArray(<<>>), SkipWs(b, i + 1) + 1)
             ELSE ParseItems(b, i + 1, <<>>))
        ELSE IF c = "{" THEN
            (IF At(b, SkipWs(b, i + 1)) = "}"
             THEN ParseOk(JObject(<<>>, <<>>), SkipWs(b, i + 1) + 1)
             ELSE ParseMembers(b, i + 1, <<>>, <<>>))
        ELSE ParseFail

\* JSON.parse(text): ok with the value, or not ok where JSON.parse throws a
\* SyntaxError.  The grammar is JSON without escapes in strings and without
\* signs, fractions and exponents in numbers; white space is the space.
JSONParse(text) ==
    LET r == ParseValue(text, SkipWs(text, 1))
    IN  IF r.ok /\ SkipWs(text, r.pos) = Len(text) + 1 THEN r ELSE ParseFail

\* value[name] for a property name that is no array index and no built-in:
\* a TypeError on null and undefined, the member of an object, undefined on
\* everything else.
GetProp(value, name) ==
    IF value.t \in {"null", "undefined"} THEN [throws |-> TRUE, val |-> JUndefined]
    ELSE IF value.t = "object" /\ \E k \in 1..Len(value.keys) : value.keys[k] = name
    THEN [throws |-> FALSE,
          val |-> value.items[CHOOSE k \in 1..Len(value.keys) : value.keys[k] = name]]
    ELSE [throws |-> FALSE, val |-> JUndefined]

\* new Date(value): the time value of a number, null or boolean; an invalid
\* date for undefined; for a string, array or object the date is whatever
\* Date.parse makes of the value's text, which is left unevaluated.
NewDate(value) ==
    IF value.t = "number" THEN JV("date", value.n, <<>>, <<>>, <<>>)
    ELSE IF value.t \in {"null", "false"} THEN JV("date", 0, <<>>, <<>>, <<>>)
    ELSE IF value.t = "true" THEN JV("date", 1, <<>>, <<>>, <<>>)
    ELSE IF value.t = "undefined" THEN JV("invalid-date", 0, <<>>, <<>>, <<>>)
    ELSE JV("date-parse", 0, <<>>, <<>>, <<value>>)

-----------------------------------------------------------------------------
(* WebHook: webhook.ts, and WebHookError: src/src/errors.ts *)

\* {"time_ms":12,"events":[{"name":"a"}]}
BodyEvents ==
    << "{", "\"", "t", "i", "m", "e", "_", "m", "s", "\"", ":", "1", "2", ",",
    "\"", "e", "v", "e", "n", "t", "s", "\"", ":", "[", "{", "\"", "n", "a",
    "m", "e", "\"", ":", "\"", "a", "\"", "}", "]", "}" >>

\* {"events":[]}
BodyNoTime ==
    << "{", "\"", "e", "v", "e", "n", "t", "s", "\"", ":", "[", "]", "}" >>

\* null
BodyNull ==
    << "n", "u", "l", "l" >>

\* 7
BodyNumber ==
    << "7" >>

\* [1, true]
BodyArray ==
    << "[", "1", ",", " ", "t", "r", "u", "e", "]" >>

\* {"time_ms":1
BodyTruncated ==
    << "{", "\"", "t", "i", "m", "e", "_", "m", "s", "\"", ":", "1" >>

\* (the empty body)
BodyEmpty ==
    <<>>

ApplicationJson ==
    << "a", "p", "p", "l", "i", "c", "a", "t", "i", "o", "n", "/", "j", "s",
    "o", "n" >>

TextPlain ==
    << "t", "e", "x", "t", "/", "p", "l", "a", "i", "n" >>

EventsName ==
    << "e", "v", "e", "n", "t", "s" >>

TimeMsName ==
    << "t", "i", "m", "e", "_", "m", "s" >>

NoError ==
    [name |-> "none", message |-> "", contentType |-> Undefined,
     body |-> <<>>, signature |-> Undefined]

\* new errors.WebHookError(message, contentType, body, signature)
WebHookError(message, contentType, body, signature) ==
    [name |-> "PusherWebHookError", message |-> message,
     contentType |-> contentType, body |-> body, signature |-> signature]

\* The TypeError of a property read on null.
TypeError ==
    [name |-> "TypeError", message |-> "", contentType |-> Undefined,
     body |-> <<>>, signature |-> Undefined]

\* How a call ended: the object after it, the caller's argument after it,
\* and what it returned (bool or val) or threw (err).
Returned(self, arg, bool, val) ==
    [self |-> self, arg |-> arg, ret |-> "return", bool |-> bool, val |-> val,
     err |-> NoError]
Thrown(self, arg, err) ==
    [self |-> self, arg |-> arg, ret |-> "throw", bool |-> FALSE,
     val |-> JUndefined, err |-> err]

\* The extraTokens argument of isValid: left out, one token, or an array.
NoArg == [kind |-> "absent", items |-> <<>>]
OneToken(t) == [kind |-> "single", items |-> <<t>>]
TokenArray(ts) == [kind |-> "array", items |-> ts]

\* isContentTypeValid accepting any content-type header that is present.
isContentTypeValidAnyType(self) == IsString(self.contentType)

\* WebHook.isContentTypeValid()
isContentTypeValid(self) == self.contentType = Str(ApplicationJson)

\* WebHook.isBodyValid()
isBodyValid(self) == self.data # JUndefined

\* The constructor parsing the body whatever the content type.
NewWebHookAnyType(token, request) ==
    LET self == [token |-> token,
                 key |-> request.headers.key,
                 signature |-> request.headers.signature,
                 contentType |-> request.headers.contentType,
                 body |-> request.rawBody,
                 data |-> JUndefined]
        parsed == JSONParse(self.body)
    IN  IF parsed.ok
        THEN Returned([self EXCEPT !.data = parsed.val], NoArg, FALSE, JUndefined)
        ELSE Returned(self, NoArg, FALSE, JUndefined)

\* new WebHook(token, request): data stays undefined unless the content
\* type is valid and the body parses; a parse failure is caught.
NewWebHook(token, request) ==
    LET self == [token |-> token,
                 key |-> request.headers.key,
                 signature |-> request.headers.signature,
                 contentType |-> request.headers.contentType,
                 body |-> request.rawBody,
                 data |-> JUndefined]
        parsed == JSONParse(self.body)
    IN  IF isContentTypeValid(self)
        THEN IF parsed.ok
             THEN Returned([self EXCEPT !.data = parsed.val], NoArg, FALSE, JUndefined)
             ELSE Returned(self, NoArg, FALSE, JUndefined)
        ELSE Returned(self, NoArg, FALSE, JUndefined)

\* extraTokens = extraTokens || []; wrapped in an array when it is none.
ExtraTokenList(extraTokens) == extraTokens.items

\* The candidates without the primary token.
CandidateTokensNoPrimary(self, extraTokens) == ExtraTokenList(extraTokens)

\* const tokens = [this.token].concat(extraTokens)
CandidateTokens(self, extraTokens) == <<self.token>> \o ExtraTokenList(extraTokens)

\* this.key == token.key, on strings and undefined
LooseEquals(a, b) == a = b

RECURSIVE FirstKeyDecides(_, _, _)
\* The loop returning what the first token with the claimed key says.
FirstKeyDecides(self, tokens, i) ==
    IF i > Len(tokens) THEN FALSE
    ELSE IF LooseEquals(self.key, tokens[i].key)
         THEN verify(tokens[i], self.body, self.signature)
         ELSE FirstKeyDecides(self, tokens, i + 1)

RECURSIVE SomeTokenVerifies(_, _, _)
\* for (const i in tokens): true at the first token whose key is the
\* claimed key and which verifies the body against the claimed signature.
SomeTokenVerifies(self, tokens, i) ==
    IF i > Len(tokens) THEN FALSE
    ELSE IF LooseEquals(self.key, tokens[i].key)
            /\ verify(tokens[i], self.body, self.signature)
         THEN TRUE
         ELSE SomeTokenVerifies(self, tokens, i + 1)

\* isValid reading the body through getData: an invalid body raises.
isValidRaising(self, extraTokens) ==
    IF ~isBodyValid(self)
    THEN Thrown(self, extraTokens,
                WebHookError("Invalid WebHook body", self.contentType, self.body,
                             self.signature))
    ELSE Returned(self, extraTokens,
                  SomeTokenVerifies(self, CandidateTokens(self, extraTokens), 1),
                  JUndefined)

\* isValid building its candidates in the caller's array (unshift in place
\* of concat).
isValidInPlace(self, extraTokens) ==
    IF ~isBodyValid(self) THEN Returned(self, extraTokens, FALSE, JUndefined)
    ELSE Returned(self,
                  IF extraTokens.kind = "array"
                  THEN TokenArray(CandidateTokens(self, extraTokens))
                  ELSE extraTokens,
                  SomeTokenVerifies(self, CandidateTokens(self, extraTokens), 1),
                  JUndefined)

\* WebHook.isValid(extraTokens)
isValid(self, extraTokens) ==
    IF ~isBodyValid(self) THEN Returned(self, extraTokens, FALSE, JUndefined)
    ELSE Returned(self, extraTokens,
                  SomeTokenVerifies(self, CandidateTokens(self, extraTokens), 1),
                  JUndefined)

\* getData gated on the signature: it also raises unless the primary token
\* validates the envelope.
getDataRequiresValid(self) ==
    IF ~isBodyValid(self) \/ ~isValid(self, NoArg).bool
    THEN Thrown(self, NoArg,
                WebHookError("Invalid WebHook body", self.contentType, self.body,
                             self.signature))
    ELSE Returned(self, NoArg, FALSE, self.data)

\* WebHook.getData()
getData(self) ==
    IF ~isBodyValid(self)
    THEN Thrown(self, NoArg,
                WebHookError("Invalid WebHook body", self.contentType, self.body,
                             self.signature))
    ELSE Returned(self, NoArg, FALSE, self.data)

\* WebHook.getEvents()
getEvents(self) ==
    LET d == getData(self)
        p == GetProp(d.val, EventsName)
    IN  IF d.ret = "throw" THEN d
        ELSE IF p.throws THEN Thrown(d.self, NoArg, TypeError)
        ELSE Returned(d.self, NoArg, FALSE, p.val)

\* WebHook.getTime()
getTime(self) ==
    LET d == getData(self)
        p == GetProp(d.val, TimeMsName)
    IN  IF d.ret = "throw" THEN d
        ELSE IF p.throws THEN Thrown(d.self, NoArg, TypeError)
        ELSE Returned(d.self, NoArg, FALSE, NewDate(p.val))

-----------------------------------------------------------------------------
(* The webhook requests and calls of the model *)

Bodies ==
    {BodyEvents, BodyNoTime, BodyNull, BodyNumber, BodyArray, BodyTruncated, BodyEmpty}

\* The content-type header: the valid one, another one, and none.
ContentTypes == {Str(ApplicationJson), Str(TextPlain), Undefined}

\* The x-pusher-key header: a key of the model, or none.
ClaimedKeys == {t.key : t \in Tokens} \cup {Undefined}

\* The x-pusher-signature header: the body signed with the first secret, a
\* signature no secret of the model has to give, or none.
ClaimedSignatures(body) ==
    {Str(hmac(<<"s", "1">>, body)), Str(<<"z", "z">>), Undefined}

Requests ==
    UNION {{[headers |-> [key |-> k, signature |-> g, contentType |-> c],
             rawBody |-> b] : k \in ClaimedKeys, c \in ContentTypes,
                              g \in ClaimedSignatures(b)} : b \in Bodies}

MaxExtraTokens == 2

RECURSIVE TokenLists(_)
\* Every array of at most n tokens.
TokenLists(n) ==
    IF n = 0 THEN {<<>>}
    ELSE LET shorter == TokenLists(n - 1)
         IN  shorter \cup {Append(l, t) : l \in shorter, t \in Tokens}

ExtraTokenArgs ==
    {NoArg} \cup {OneToken(t) : t \in Tokens}
            \cup {TokenArray(l) : l \in TokenLists(MaxExtraTokens)}

\* What is kept of a call: the operation, its argument before and after,
\* and how it ended.
CallRecord(op, arg, o) ==
    [op |-> op, arg |-> arg, argAfter |-> o.arg, ret |-> o.ret, bool |-> o.bool,
     val |-> o.val, err |-> o.err]

NoCall ==
    [op |-> "none", arg |-> NoArg, argAfter |-> NoArg, ret |-> "return",
     bool |-> FALSE, val |-> JUndefined, err |-> NoError]

NoWebHook ==
    [token |-> NewToken(Str(<<>>), <<>>), key |-> Undefined, signature |-> Undefined,
     contentType |-> Undefined, body |-> <<>>, data |-> JUndefined]


\* The object exists: its constructor returned.
Constructed == last.op # "none" /\ ~(last.op = "new" /\ last.ret = "throw")

\* pusher.webhook(request): a WebHook is constructed from a request.
Construct(tokens, requests) ==
    /\ \E t \in tokens, r \in requests :
          LET o == NewWebHook(t, r)
          IN  /\ wh = o.self
              /\ last = CallRecord("new", NoArg, o)
    /\ snap = NoCall
    /\ call = NoPusherCall
    /\ tok = NoTokenCall

\* A call of isValid with an argument of args.
IsValidCall(args) ==
    /\ Constructed
    /\ \E x \in args :
          LET o == isValid(wh, x)
          IN  /\ wh' = o.self
              /\ last' = CallRecord("isValid", x, o)
    /\ UNCHANGED <<snap, call, tok>>

CallIsValid == IsValidCall(ExtraTokenArgs)

CallIsContentTypeValid ==
    /\ Constructed
    /\ wh' = wh
    /\ last' = CallRecord("isContentTypeValid", NoArg,
                          Returned(wh, NoArg, isContentTypeValid(wh), JUndefined))
    /\ UNCHANGED <<snap, call, tok>>

CallIsBodyValid ==
    /\ Constructed
    /\ wh' = wh
    /\ last' = CallRecord("isBodyValid", NoArg,
                          Returned(wh, NoArg, isBodyValid(wh), JUndefined))
    /\ UNCHANGED <<snap, call, tok>>

CallGetData ==
    /\ Constructed
    /\ LET o == getData(wh)
       IN  /\ wh' = o.self
           /\ last' = CallRecord("getData", NoArg, o)
    /\ UNCHANGED <<snap, call, tok>>

CallGetEvents ==
    /\ Constructed
    /\ LET o == getEvents(wh)
       IN  /\ wh' = o.self
           /\ last' = CallRecord("getEvents", NoArg, o)
    /\ UNCHANGED <<snap, call, tok>>

CallGetTime ==
    /\ Constructed
    /\ LET o == getTime(wh)
       IN  /\ wh' = o.self
           /\ last' = CallRecord("getTime", NoArg, o)
    /\ UNCHANGED <<snap, call, tok>>

\* The caller keeps the outcome of a call to compare later calls with.
Remember ==
    /\ snap.op = "none"
    /\ last.op \notin {"none", "new"}
    /\ snap' = last
    /\ UNCHANGED <<wh, last, call, tok>>

InitWebHook == Construct(Tokens, Requests)

NextWebHook ==
    \/ CallIsValid
    \/ CallIsContentTypeValid
    \/ CallIsBodyValid
    \/ CallGetData
    \/ CallGetEvents
    \/ CallGetTime

SpecWebHook == InitWebHook /\ [][NextWebHook]_vars

(* The life of one envelope: any sequence of calls, with an earlier call *)
(* remembered.  The requests are those signed or not by the first token   *)
(* with a key claimed, and isValid takes shorter arrays.                   *)

MaxLifeExtraTokens == 1

LifeExtraTokenArgs ==
    {NoArg} \cup {OneToken(t) : t \in Tokens}
            \cup {TokenArray(l) : l \in TokenLists(MaxLifeExtraTokens)}

LifeTokens == {NewToken(Str(<<"k", "1">>), <<"s", "1">>)}

LifeRequests == {r \in Requests : r.headers.key # Undefined}

InitWebHookLife == Construct(LifeTokens, LifeRequests)

CallIsValidLife == IsValidCall(LifeExtraTokenArgs)

NextWebHookLife ==
    \/ CallIsValidLife
    \/ CallIsContentTypeValid
    \/ CallIsBodyValid
    \/ CallGetData
    \/ CallGetEvents
    \/ CallGetTime
    \/ Remember

SpecWebHookLife == InitWebHookLife /\ [][NextWebHookLife]_vars

-----------------------------------------------------------------------------
(* The token calls of the model *)

\* A token, a message and a signature argument are drawn.
InitToken ==
    /\ wh = NoWebHook
    /\ last = NoCall
    /\ snap = NoCall
    /\ call = NoPusherCall
    /\ \E t \in Tokens, m \in Messages, g \in Signatures :
          tok = [NoTokenCall EXCEPT !.token = t, !.string = m, !.signature = g]

NextToken == TokenSign \/ TokenVerify

SpecToken == InitToken /\ [][NextToken]_vars

-----------------------------------------------------------------------------
(* Properties of WebHook *)

\* The candidate tokens of the last isValid call: the primary token and
\* the extra tokens the caller gave.
LastCandidates == {wh.token} \cup {last.arg.items[i] : i \in 1..Len(last.arg.items)}

\* The token has the claimed key and its signature of the raw body is the
\* claimed signature.
Matches(t) == t.key = wh.key /\ wh.signature = Str(sign(t, wh.body))

\* C1: isValid(extraTokens) returns true if and only if isBodyValid() is
\* true and some token among the primary token and the extra tokens has
\* the claimed key and verifies the raw body against the claimed signature.
C1_IsValidIffSomeCandidateMatches ==
    last.op = "isValid" =>
        /\ last.ret = "return"
        /\ last.bool <=> (isBodyValid(wh) /\ \E t \in LastCandidates : Matches(t))

\* A signature made with a rotated key, supplied only as an extra token,
\* is accepted.
C1_RotatedKeyAccepted ==
    /\ last.op = "isValid"
    /\ last.bool
    /\ ~Matches(wh.token)
    /\ last.arg.kind = "array"

\* The rearrangements of a sequence.
Rearrangements(seq) ==
    {[i \in 1..Len(seq) |-> seq[f[i]]] :
        f \in {g \in [1..Len(seq) -> 1..Len(seq)] :
                  \A i, j \in 1..Len(seq) : g[i] = g[j] => i = j}}

\* C2: the result of isValid does not depend on the order of the candidate
\* tokens: with the primary and extra tokens rearranged in any way (one of
\* them primary, the rest extra) isValid gives the same boolean.
C2_CandidateOrderIrrelevant ==
    last.op = "isValid" =>
        \A p \in Rearrangements(<<wh.token>> \o last.arg.items) :
            isValid([wh EXCEPT !.token = p[1]], TokenArray(Tail(p))).bool = last.bool

\* Only the last of three candidates matches, and isValid is true.
C2_LastCandidateMatches ==
    /\ last.op = "isValid"
    /\ last.bool
    /\ Len(last.arg.items) = 2
    /\ ~Matches(wh.token)
    /\ ~Matches(last.arg.items[1])

\* C3 as stated: isBodyValid() is true if and only if the raw body parses
\* as JSON, whatever the headers, and the constructor does not raise.
C3_BodyValidIffParses ==
    /\ last.op = "new" => last.ret = "return"
    /\ last.op = "isBodyValid" => (last.bool <=> JSONParse(wh.body).ok)

\* C3 amended: isBodyValid() is true if and only if the content-type header
\* is exactly application/json and the raw body parses as JSON; a body
\* that fails to parse never makes the constructor raise.
C3_BodyValidIffJsonTypeAndParses ==
    /\ last.op = "new" => last.ret = "return"
    /\ last.op = "isBodyValid" =>
          /\ last.ret = "return"
          /\ last.bool <=> (wh.contentType = Str(ApplicationJson) /\ JSONParse(wh.body).ok)

\* A body that does not parse, under the valid content type: the object
\* was constructed and isBodyValid() is false.
C3_ParseFailureRecorded ==
    /\ last.op = "isBodyValid"
    /\ ~last.bool
    /\ wh.contentType = Str(ApplicationJson)
    /\ ~JSONParse(wh.body).ok

\* C4: on an envelope whose body is invalid getData, getEvents and getTime
\* fail with a WebHookError carrying the content type, raw body and claimed
\* signature; on an envelope whose body is valid getData returns the parsed
\* body, getEvents its events field and getTime its time_ms field as a
\* timestamp, none of them raising.
C4_AccessorsFailOnlyOnInvalidBody ==
    last.op \in {"getData", "getEvents", "getTime"} =>
        IF ~isBodyValid(wh)
        THEN /\ last.ret = "throw"
             /\ last.err.name = "PusherWebHookError"
             /\ last.err.contentType = wh.contentType
             /\ last.err.body = wh.body
             /\ last.err.signature = wh.signature
        ELSE /\ last.ret = "return"
             /\ last.op = "getData" => last.val = JSONParse(wh.body).val
             /\ last.op = "getEvents" => last.val = GetProp(wh.data, EventsName).val
             /\ last.op = "getTime" => last.val = NewDate(GetProp(wh.data, TimeMsName).val)

\* C5: an envelope is immutable after construction: no call changes the
\* object or the caller's extra-token list, and a call repeats the outcome
\* of an earlier call of the same operation with the same argument.
C5_EnvelopeImmutable ==
    /\ [](last.argAfter = last.arg)
    /\ []((snap.op = last.op /\ snap.arg = last.arg) =>
             (snap.ret = last.ret /\ snap.bool = last.bool /\ snap.val = last.val
                 /\ snap.err = last.err))
    /\ [][wh' = wh]_vars

\* An isValid call is repeated with the argument of an earlier one that
\* was remembered, an array of extra tokens.
C5_CallRepeated ==
    /\ snap.op = "isValid"
    /\ last.op = "isValid"
    /\ snap.arg = last.arg
    /\ last.arg.kind = "array"
    /\ Len(last.arg.items) > 0
    /\ last.bool

-----------------------------------------------------------------------------
(* Pusher: the validators, authenticate and trigger of src/src/pusher.ts *)

\* The characters of [A-Za-z0-9_\-=@,.;]
ChannelChars ==
    { "A", "B", "C", "D", "E", "F", "G", "H", "I", "J", "K", "L", "M", "N",
    "O", "P", "Q", "R", "S", "T", "U", "V", "W", "X", "Y", "Z", "a", "b", "c",
    "d", "e", "f", "g", "h", "i", "j", "k", "l", "m", "n", "o", "p", "q", "r",
    "s", "t", "u", "v", "w", "x", "y", "z", "0", "1", "2", "3", "4", "5", "6",
    "7", "8", "9", "_", "-", "=", "@", ",", ".", ";" }

InvalidChannelText ==
    << "I", "n", "v", "a", "l", "i", "d", " ", "c", "h", "a", "n", "n", "e",
    "l", " ", "n", "a", "m", "e", ":", " ", "'" >>

ChannelTooLongText ==
    << "C", "h", "a", "n", "n", "e", "l", " ", "n", "a", "m", "e", " ", "t",
    "o", "o", " ", "l", "o", "n", "g", ":", " ", "'" >>

InvalidSocketIdText ==
    << "I", "n", "v", "a", "l", "i", "d", " ", "s", "o", "c", "k", "e", "t",
    " ", "i", "d", ":", " ", "'" >>

TooLongEventText ==
    << "T", "o", "o", " ", "l", "o", "n", "g", " ", "e", "v", "e", "n", "t",
    " ", "n", "a", "m", "e", ":", " ", "'" >>

TooManyChannelsText ==
    << "C", "a", "n", "'", "t", " ", "t", "r", "i", "g", "g", "e", "r", " ",
    "a", " ", "m", "e", "s", "s", "a", "g", "e", " ", "t", "o", " ", "m", "o",
    "r", "e", " ", "t", "h", "a", "n", " ", "1", "0", "0", " ", "c", "h", "a",
    "n", "n", "e", "l", "s" >>

MaxChannelNameLength == 200
MaxEventNameLength == 200
MaxChannels == 100

\* A validator passed, or threw new Error(message).
Passed == [ok |-> TRUE, message |-> <<>>]
Failed(message) == [ok |-> FALSE, message |-> message]

\* validateChannel with the length limit one short.
validateChannelOffByOne(channel) ==
    IF \/ ~IsString(channel)
       \/ channel.v = <<>>
       \/ \E i \in 1..Len(channel.v) : channel.v[i] \notin ChannelChars
    THEN Failed(InvalidChannelText \o JSString(channel) \o <<"'">>)
    ELSE IF Len(channel.v) >= MaxChannelNameLength
    THEN Failed(ChannelTooLongText \o JSString(channel) \o <<"'">>)
    ELSE Passed

\* validateChannel(channel)
validateChannel(channel) ==
    IF \/ ~IsString(channel)
       \/ channel.v = <<>>
       \/ \E i \in 1..Len(channel.v) : channel.v[i] \notin ChannelChars
    THEN Failed(InvalidChannelText \o JSString(channel) \o <<"'">>)
    ELSE IF Len(channel.v) > MaxChannelNameLength
    THEN Failed(ChannelTooLongText \o JSString(channel) \o <<"'">>)
    ELSE Passed

RECURSIVE DigitsEnd(_, _)
\* \d+ from i on: the position after the run of digits that starts at i.
DigitsEnd(s, i) == IF At(s, i) \in Digits THEN DigitsEnd(s, i + 1) ELSE i

\* socketId.match(/^\d+\.\d+$/)
MatchesSocketIdPattern(s) ==
    LET dot == DigitsEnd(s, 1)
        end == DigitsEnd(s, dot + 1)
    IN  /\ dot > 1
        /\ At(s, dot) = "."
        /\ end > dot + 1
        /\ end = Len(s) + 1

\* validateSocketId(socketId)
validateSocketId(socketId) ==
    IF \/ ~IsString(socketId)
       \/ socketId.v = <<>>
       \/ ~MatchesSocketIdPattern(socketId.v)
    THEN Failed(InvalidSocketIdText \o JSString(socketId) \o <<"'">>)
    ELSE Passed

\* How a call on the Pusher object ended: the steps it took, in order;
\* whether it threw, and what; and the channels and socket id it handed on.
PusherThrew(steps, name, message) ==
    [steps |-> steps, ret |-> "throw", name |-> name, message |-> message,
     channels |-> <<>>, socketId |-> Undefined]
PusherHandedOn(steps, channels, socketId) ==
    [steps |-> steps, ret |-> "return", name |-> "none", message |-> <<>>,
     channels |-> channels, socketId |-> socketId]

\* authenticate validating the channel before the socket id.
authenticateChannelFirst(socketId, channel) ==
    LET s == validateSocketId(socketId)
        c == validateChannel(channel)
    IN  IF ~c.ok THEN PusherThrew(<<"validateChannel">>, "Error", c.message)
        ELSE IF ~s.ok
        THEN PusherThrew(<<"validateChannel", "validateSocketId">>, "Error", s.message)
        ELSE PusherHandedOn(<<"validateChannel", "validateSocketId",
                              "auth.getSocketSignature">>, <<channel>>, socketId)

\* Pusher.authenticate(socketId, channel, data): what auth.getSocketSignature
\* returns is what the call returns.
authenticate(socketId, channel) ==
    LET s == validateSocketId(socketId)
        c == validateChannel(channel)
    IN  IF ~s.ok THEN PusherThrew(<<"validateSocketId">>, "Error", s.message)
        ELSE IF ~c.ok
        THEN PusherThrew(<<"validateSocketId", "validateChannel">>, "Error", c.message)
        ELSE PusherHandedOn(<<"validateSocketId", "validateChannel",
                              "auth.getSocketSignature">>, <<channel>>, socketId)

\* if (socketId): undefined, the empty string and 0 are falsy.
Truthy(x) ==
    \/ x.t = "string" /\ x.v # <<>>
    \/ x.t = "number" /\ x.v # <<"0">>

\* The channels argument of trigger: an array of values, or one value.
ChannelArray(items) == [isArray |-> TRUE, items |-> items]
OneChannel(c) == [isArray |-> FALSE, items |-> <<c>>]

\* for (let i = 0; i < channels.length; i++) validateChannel(channels[i]):
\* the loop stops at the first entry that fails; the steps taken are one
\* validateChannel for every entry up to there.
ValidateChannels(channels, steps) ==
    LET bad == {i \in 1..Len(channels) : ~validateChannel(channels[i]).ok}
        first == CHOOSE i \in bad : \A j \in bad : i <= j
    IN  IF bad = {}
        THEN [ok |-> TRUE, message |-> <<>>,
              steps |-> steps \o [i \in 1..Len(channels) |-> "validateChannel"]]
        ELSE [ok |-> FALSE, message |-> validateChannel(channels[first]).message,
              steps |-> steps \o [i \in 1..first |-> "validateChannel"]]

\* trigger validating the first channel only.
triggerFirstChannelOnly(channels, event, socketId) ==
    LET s == IF Truthy(socketId) THEN validateSocketId(socketId) ELSE Passed
        steps1 == IF Truthy(socketId) THEN <<"validateSocketId">> ELSE <<>>
        list == channels.items
        v == ValidateChannels(IF list = <<>> THEN <<>> ELSE <<list[1]>>, steps1)
    IN  IF ~s.ok THEN PusherThrew(steps1, "Error", s.message)
        ELSE IF event.t = "undefined" THEN PusherThrew(steps1, "TypeError", <<>>)
        ELSE IF IsString(event) /\ Len(event.v) > MaxEventNameLength
        THEN PusherThrew(steps1, "Error", TooLongEventText \o event.v \o <<"'">>)
        ELSE IF Len(list) > MaxChannels
        THEN PusherThrew(steps1, "Error", TooManyChannelsText)
        ELSE IF ~v.ok THEN PusherThrew(v.steps, "Error", v.message)
        ELSE PusherHandedOn(Append(v.steps, "events.trigger"), list, socketId)

\* Pusher.trigger(channels, event, data, socketId): what events.trigger
\* returns is what the call returns.  event.length is a TypeError on
\* undefined and is undefined, so not above the limit, on a number.
trigger(channels, event, socketId) ==
    LET s == IF Truthy(socketId) THEN validateSocketId(socketId) ELSE Passed
        steps1 == IF Truthy(socketId) THEN <<"validateSocketId">> ELSE <<>>
        list == channels.items
        v == ValidateChannels(list, steps1)
    IN  IF ~s.ok THEN PusherThrew(steps1, "Error", s.message)
        ELSE IF event.t = "undefined" THEN PusherThrew(steps1, "TypeError", <<>>)
        ELSE IF IsString(event) /\ Len(event.v) > MaxEventNameLength
        THEN PusherThrew(steps1, "Error", TooLongEventText \o event.v \o <<"'">>)
        ELSE IF Len(list) > MaxChannels
        THEN PusherThrew(steps1, "Error", TooManyChannelsText)
        ELSE IF ~v.ok THEN PusherThrew(v.steps, "Error", v.message)
        ELSE PusherHandedOn(Append(v.steps, "events.trigger"), list, socketId)

-----------------------------------------------------------------------------
(* The Pusher calls of the model *)

MaxSocketIdLen == 3
MaxShortChannelLen == 2
MaxShortList == 2

\* Socket ids: every short string of digits, dots and letters; no value;
\* a number.
SocketIds ==
    {Str(s) : s \in SeqsUpTo({"1", ".", "a"}, MaxSocketIdLen)}
        \cup {Undefined, Num(<<"1">>)}

\* Channel names around the length limit, of allowed characters and with
\* one character that is not allowed.
LongChannels ==
    {Str(Repeat("a", n)) :
        n \in {MaxChannelNameLength - 1, MaxChannelNameLength, MaxChannelNameLength + 1}}
        \cup {Str(Repeat("a", MaxChannelNameLength - 1) \o <<"!">>)}

\* Channel values: every short string of an allowed letter, an allowed
\* punctuation mark and a character that is not allowed; the long names;
\* no value; a number.
Channels ==
    {Str(s) : s \in SeqsUpTo({"a", ";", "!"}, MaxShortChannelLen)}
        \cup LongChannels
        \cup {Undefined, Num(<<"5">>)}

\* The entries of the channel lists.
ListEntries == {Str(<<"a">>), Str(<<"!">>), Str(Repeat("a", MaxChannelNameLength + 1))}

RECURSIVE ShortLists(_)
ShortLists(n) ==
    IF n = 0 THEN {<<>>}
    ELSE LET shorter == ShortLists(n - 1)
         IN  shorter \cup {Append(l, c) : l \in shorter, c \in ListEntries}

\* Lists around the limit on their length: of valid names, and with one
\* invalid name first, in the middle or last.
LongLists ==
    UNION {{[i \in 1..n |-> Str(<<"a">>)]}
              \cup {[i \in 1..n |-> IF i = bad THEN Str(<<"!">>) ELSE Str(<<"a">>)] :
                       bad \in {1, n \div 2, n}} :
           n \in {MaxChannels - 1, MaxChannels, MaxChannels + 1}}

ChannelArgs ==
    {OneChannel(c) : c \in Channels}
        \cup {ChannelArray(l) : l \in ShortLists(MaxShortList) \cup LongLists}

\* Event names around the length limit; no value; a number.
Events ==
    {Str(Repeat("e", n)) : n \in {1, MaxEventNameLength, MaxEventNameLength + 1}}
        \cup {Undefined, Num(<<"5">>)}

\* The arguments of a call are drawn.
InitPusher ==
    /\ wh = NoWebHook
    /\ last = NoCall
    /\ snap = NoCall
    /\ tok = NoTokenCall
    /\ \E s \in SocketIds, c \in ChannelArgs, e \in Events :
          call = [NoPusherCall EXCEPT !.socketId = s, !.channels = c, !.event = e]

\* pusher.authenticate(socketId, channel) on the arguments drawn.
CallAuthenticate ==
    /\ call.op = "none"
    /\ ~call.channels.isArray
    /\ call' = [call EXCEPT !.op = "authenticate",
                            !.out = authenticate(call.socketId, call.channels.items[1])]
    /\ UNCHANGED <<wh, last, snap, tok>>

\* pusher.trigger(channels, event, data, socketId) on the arguments drawn.
CallTrigger ==
    /\ call.op = "none"
    /\ call' = [call EXCEPT !.op = "trigger",
                            !.out = trigger(call.channels, call.event, call.socketId)]
    /\ UNCHANGED <<wh, last, snap, tok>>

NextPusher == CallAuthenticate \/ CallTrigger

SpecPusher == InitPusher /\ [][NextPusher]_vars

-----------------------------------------------------------------------------
(* Properties of Pusher.authenticate and Pusher.trigger *)

\* The value is a string of digits, a dot and digits.
SocketIdOk(x) ==
    /\ IsString(x)
    /\ \E k \in 2..(Len(x.v) - 1) :
          /\ x.v[k] = "."
          /\ \A i \in (1..Len(x.v)) \ {k} : x.v[i] \in Digits

\* The value is a string of 1 to 200 characters, all of the allowed ones.
ChannelOk(x) ==
    /\ IsString(x)
    /\ Len(x.v) >= 1
    /\ Len(x.v) <= 200
    /\ \A i \in 1..Len(x.v) : x.v[i] \in ChannelChars

Took(step) == \E i \in 1..Len(call.out.steps) : call.out.steps[i] = step

StartsWith(text, prefix) ==
    Len(text) >= Len(prefix) /\ SubSeq(text, 1, Len(prefix)) = prefix

\* C6: authenticate reaches the signing step only after the socket id and
\* then the channel name have been validated, both successfully; with an
\* invalid socket id or channel the call raises and nothing is signed, and
\* with both invalid the socket-id error is the one raised.
C6_AuthenticateFailsFast ==
    call.op = "authenticate" =>
        LET socketOk == SocketIdOk(call.socketId)
            channelOk == ChannelOk(call.channels.items[1])
        IN  /\ Took("auth.getSocketSignature") =>
                  /\ call.out.steps = <<"validateSocketId", "validateChannel",
                                        "auth.getSocketSignature">>
                  /\ socketOk /\ channelOk
            /\ (~socketOk \/ ~channelOk) =>
                  call.out.ret = "throw" /\ ~Took("auth.getSocketSignature")
            /\ ~socketOk =>
                  /\ call.out.steps = <<"validateSocketId">>
                  /\ StartsWith(call.out.message, InvalidSocketIdText)

\* authenticate is called with an invalid socket id and an invalid channel.
C6_BothInvalid ==
    /\ call.op = "authenticate"
    /\ IsString(call.socketId) /\ ~SocketIdOk(call.socketId)
    /\ IsString(call.channels.items[1]) /\ ~ChannelOk(call.channels.items[1])
    /\ call.out.ret = "throw"

C8_TriggerRejectsBeforeForwarding ==
    call.op = "trigger" =>
        /\ (\/ IsString(call.event) /\ Len(call.event.v) > 200
            \/ Len(call.channels.items) > 100
            \/ \E i \in 1..Len(call.channels.items) : ~ChannelOk(call.channels.items[i]))
              => /\ call.out.ret = "throw"
                 /\ ~Took("events.trigger")
                 /\ call.out.channels = <<>>
        /\ ~call.channels.isArray =>
              call.out = trigger(ChannelArray(call.channels.items), call.event,
                                 call.socketId)

\* A list of 100 entries whose last entry alone is invalid is rejected.
C8_LastEntryInvalid ==
    /\ call.op = "trigger"
    /\ Len(call.channels.items) = 100
    /\ \A i \in 1..99 : ChannelOk(call.channels.items[i])
    /\ ~ChannelOk(call.channels.items[100])
    /\ IsString(call.event) /\ Len(call.event.v) <= 200
    /\ call.socketId = Undefined
    /\ call.out.ret = "throw"

\* C9: whenever events.trigger is invoked, the channel list passed to it
\* has at least 1 and at most 100 entries.
C9_ForwardedListOneToHundred ==
    (call.op = "trigger" /\ Took("events.trigger")) =>
        (Len(call.out.channels) >= 1 /\ Len(call.out.channels) <= 100)

-----------------------------------------------------------------------------
(* Properties of Token *)

\* C10: verify(message, signature) is true if and only if signature equals
\* sign(message); what sign returns verifies.
C10_VerifyIffSignatureIsSign ==
    /\ tok.op = "verify" =>
          (tok.ok <=> tok.signature = Str(sign(tok.token, tok.string)))
    /\ tok.op = "sign" => verify(tok.token, tok.string, Str(tok.signed))

\* verify is called with the signature sign gives and returns true.
C10_SignatureVerified ==
    /\ tok.op = "verify"
    /\ tok.ok

-----------------------------------------------------------------------------
(* Further properties of WebHook *)

\* C11: a signature mismatch is a boolean outcome and never a fault: on an
\* envelope whose claimed key matches no candidate token, whose claimed
\* signature is wrong or missing, or whose body is not valid, isValid
\* returns false without raising.
C11_MismatchIsFalseNotFault ==
    (last.op = "isValid"
        /\ (\/ \A t \in LastCandidates : t.key # wh.key
            \/ \A t \in LastCandidates : wh.signature # Str(sign(t, wh.body))
            \/ ~JSONParse(wh.body).ok)) =>
        /\ last.ret = "return"
        /\ last.err = NoError
        /\ ~last.bool

\* isValid on a JSON envelope whose key is the primary token's and whose
\* signature header is missing returns false.
C11_MissingSignatureIsFalse ==
    /\ last.op = "isValid"
    /\ isBodyValid(wh)
    /\ wh.key = wh.token.key
    /\ wh.signature = Undefined
    /\ last.ret = "return"
    /\ ~last.bool

\* C12: data access is not gated on signature validation: on an envelope
\* whose body is valid getData() returns the parsed body, whether isValid
\* has been called or not and whatever it returned.
C12_DataNotGatedOnSignature ==
    (last.op = "getData" /\ wh.contentType = Str(ApplicationJson)
        /\ JSONParse(wh.body).ok) =>
        /\ last.ret = "return"
        /\ last.val = JSONParse(wh.body).val

\* isValid was called and returned false, on a signature that is wrong,
\* and getData() then returns the data.
C12_DataAfterFailedValidation ==
    /\ snap.op = "isValid"
    /\ snap.ret = "return"
    /\ ~snap.bool
    /\ wh.signature # Str(sign(wh.token, wh.body))
    /\ last.op = "getData"
    /\ last.ret = "return"

\* C14: the content type gates everything in an envelope: the body is
\* parsed only after the content-type check has passed, so isBodyValid()
\* implies isContentTypeValid() and isValid(extraTokens) implies
\* isContentTypeValid(); under any content type other than exactly
\* application/json isBodyValid() is false and isValid is false for every
\* token list.
C14_ContentTypeGatesEverything ==
    /\ Constructed =>
          /\ isBodyValid(wh) => isContentTypeValid(wh)
          /\ wh.contentType # Str(ApplicationJson) =>
                (wh.data = JUndefined /\ ~isContentTypeValid(wh))
    /\ (last.op \in {"isBodyValid", "isValid"} /\ last.ret = "return" /\ last.bool) =>
          wh.contentType = Str(ApplicationJson)

\* isValid is false on a text/plain envelope whose body is valid JSON and
\* whose key and signature are the primary token's.
C14_SignedJsonUnderOtherType ==
    /\ last.op = "isValid"
    /\ wh.contentType = Str(TextPlain)
    /\ JSONParse(wh.body).ok
    /\ Matches(wh.token)
    /\ last.ret = "return"
    /\ ~last.bool

-----------------------------------------------------------------------------
(* Further properties of Pusher.trigger *)

\* C13: trigger never forwards a malformed socket id: whenever a socketId
\* is supplied that is not a non-empty string matching ^\d+\.\d+$, trigger
\* raises and events.trigger is not invoked, so events.trigger only
\* receives a socketId that is absent or matches.  (That the raise comes
\* before any other check is left out: the statement fails without it.)
C13_MalformedSocketIdNeverForwarded ==
    call.op = "trigger" =>
        /\ (call.socketId # Undefined /\ ~SocketIdOk(call.socketId)) =>
              /\ call.out.ret = "throw"
              /\ ~Took("events.trigger")
        /\ Took("events.trigger") =>
              (call.out.socketId = Undefined \/ SocketIdOk(call.out.socketId))

====
